---- MODULE Spec2Model ----
(***************************************************************************)
(* Model of the live score streamer of Modules/Flashscore/                 *)
(* fs_live_streamer.py: the polling loop live_score_streamer, the          *)
(* reconciliation _propagate_status_updates of schedules.csv and           *)
(* predictions.csv, the purge _purge_stale_live_scores of live_scores.csv  *)
(* and the evaluator _compute_outcome_correct.                             *)
(*                                                                         *)
(* Spec is the loop in nominal operation: every await returns.  A tick is  *)
(* split at its suspension points: the LIVE tab fetch, the FINISHED tab    *)
(* fetch, the synchronous local phase (purge, save, propagate), the cloud  *)
(* sync, the sleep.                                                        *)
(* SpecEval applies the evaluator to inputs drawn from bounded sets.       *)
(***************************************************************************)
EXTENDS Integers, Sequences, FiniteSets, TLC

\* ------------------------------------------------------------------ bounds

\* Largest score a LIVE or FINISHED observation carries in Spec.
MaxScore == 1
\* Largest score the evaluator is applied to in SpecEval.
MaxEvalScore == 4
\* Minutes past the kickoff at which the model's clock starts, and at which
\* it saturates: the clock is only read by the comparison with the kickoff
\* plus the fallback window, which no longer changes once it is exceeded.
StartNow == 149
MaxNow == 151

\* --------------------------------------------------------------- constants

\* timedelta(minutes=150) of the time-based fallback.
FallbackMinutes == 150
\* STREAM_INTERVAL = 60 seconds: the clock, in minutes, advances by one.
StreamIntervalMinutes == 1

\* The fixture_ids of the model, and those with a row in schedules.csv and
\* in predictions.csv: the streamer never creates such a row.
F1 == "f1"
F2 == "f2"
Fixtures == {F1, F2}
SchedIds == {F1, F2}
PredIds == {F1}

\* ----------------------------------------------------------------- strings

\* A text is a sequence of characters, so that lower() and the substring
\* test `in` are computed as Python computes them.
UpperChars == <<"A","B","C","D","E","F","G","H","I","J","K","L","M",
                "N","O","P","Q","R","S","T","U","V","W","X","Y","Z">>
LowerChars == <<"a","b","c","d","e","f","g","h","i","j","k","l","m",
                "n","o","p","q","r","s","t","u","v","w","x","y","z">>

LowerChar(c) ==
    IF \E i \in 1..Len(UpperChars) : UpperChars[i] = c
    THEN LowerChars[CHOOSE i \in 1..Len(UpperChars) : UpperChars[i] = c]
    ELSE c

\* str.lower()
Lower(s) == [i \in 1..Len(s) |-> LowerChar(s[i])]

\* `k in s` for strings
Contains(s, k) ==
    \E i \in 1..(Len(s) - Len(k) + 1) : SubSeq(s, i, i + Len(k) - 1) = k

\* The keywords of _compute_outcome_correct.
KwHomeWin == <<"h","o","m","e"," ","w","i","n">>
KwAwayWin == <<"a","w","a","y"," ","w","i","n">>
KwDraw == <<"d","r","a","w">>
KwOver25 == <<"o","v","e","r"," ","2",".","5">>
KwUnder25 == <<"u","n","d","e","r"," ","2",".","5">>
KwBtts == <<"b","t","t","s">>
KwBothTeams == <<"b","o","t","h"," ","t","e","a","m","s"," ","t","o"," ",
                 "s","c","o","r","e">>

\* Scores are the strings of the CSV cells and of the scraped innerText.
Digits == <<"0","1","2","3","4","5","6","7","8","9">>
ScoreStr(n) == Digits[n + 1]
\* int(s) succeeds
IsInt(s) == \E i \in 1..Len(Digits) : Digits[i] = s
\* int(s)
IntOf(s) == (CHOOSE i \in 1..Len(Digits) : Digits[i] = s) - 1

\* --------------------------------------------------------------- evaluator

\* The evaluator without lower(): the keywords are matched case-sensitively.
ComputeOutcomeCaseSensitive(prediction_str, home_score, away_score) ==
    IF ~(IsInt(home_score) /\ IsInt(away_score)) THEN ""
    ELSE LET hs == IntOf(home_score)
             aws == IntOf(away_score)
             p == prediction_str
         IN  IF Contains(p, KwHomeWin) THEN (IF hs > aws THEN "True" ELSE "False")
             ELSE IF Contains(p, KwAwayWin) THEN (IF aws > hs THEN "True" ELSE "False")
             ELSE IF Contains(p, KwDraw) THEN (IF hs = aws THEN "True" ELSE "False")
             ELSE IF Contains(p, KwOver25) THEN (IF (hs + aws) > 2 THEN "True" ELSE "False")
             ELSE IF Contains(p, KwUnder25) THEN (IF (hs + aws) < 3 THEN "True" ELSE "False")
             ELSE IF Contains(p, KwBtts) \/ Contains(p, KwBothTeams)
                  THEN (IF hs > 0 /\ aws > 0 THEN "True" ELSE "False")
             ELSE ""

\* The evaluator testing 'draw' before 'home win'.
ComputeOutcomeDrawFirst(prediction_str, home_score, away_score) ==
    IF ~(IsInt(home_score) /\ IsInt(away_score)) THEN ""
    ELSE LET hs == IntOf(home_score)
             aws == IntOf(away_score)
             p == Lower(prediction_str)
         IN  IF Contains(p, KwDraw) THEN (IF hs = aws THEN "True" ELSE "False")
             ELSE IF Contains(p, KwHomeWin) THEN (IF hs > aws THEN "True" ELSE "False")
             ELSE IF Contains(p, KwAwayWin) THEN (IF aws > hs THEN "True" ELSE "False")
             ELSE IF Contains(p, KwOver25) THEN (IF (hs + aws) > 2 THEN "True" ELSE "False")
             ELSE IF Contains(p, KwUnder25) THEN (IF (hs + aws) < 3 THEN "True" ELSE "False")
             ELSE IF Contains(p, KwBtts) \/ Contains(p, KwBothTeams)
                  THEN (IF hs > 0 /\ aws > 0 THEN "True" ELSE "False")
             ELSE ""

_compute_outcome_correct(prediction_str, home_score, away_score) ==
    IF ~(IsInt(home_score) /\ IsInt(away_score)) THEN ""
    ELSE LET hs == IntOf(home_score)
             aws == IntOf(away_score)
             p == Lower(prediction_str)
         IN  IF Contains(p, KwHomeWin) THEN (IF hs > aws THEN "True" ELSE "False")
             ELSE IF Contains(p, KwAwayWin) THEN (IF aws > hs THEN "True" ELSE "False")
             ELSE IF Contains(p, KwDraw) THEN (IF hs = aws THEN "True" ELSE "False")
             ELSE IF Contains(p, KwOver25) THEN (IF (hs + aws) > 2 THEN "True" ELSE "False")
             ELSE IF Contains(p, KwUnder25) THEN (IF (hs + aws) < 3 THEN "True" ELSE "False")
             ELSE IF Contains(p, KwBtts) \/ Contains(p, KwBothTeams)
                  THEN (IF hs > 0 /\ aws > 0 THEN "True" ELSE "False")
             ELSE ""

\* ------------------------------------------------------------ observations

\* The scores an observation carries.  A fixture with a prediction row takes
\* every pair of ScorePairs, so that the evaluator answers both ways; the
\* scores of a fixture without one are only copied, and it takes one pair.
ScorePairs == {<<ScoreStr(MaxScore), ScoreStr(a)>> : a \in 0..MaxScore}
ScorePairsOf(fid) ==
    IF fid \in PredIds THEN ScorePairs ELSE {<<ScoreStr(MaxScore), ScoreStr(0)>>}

\* What the LIVE tab yields for one match: the scraped scores.
LiveObs(fid) == {[home_score |-> sp[1], away_score |-> sp[2]] : sp \in ScorePairsOf(fid)}

\* What the FINISHED tab yields for one match: the terminal status and the
\* stage detail the page script derives from the stage text, and the scores.
FinKinds == {[status |-> "finished", stage_detail |-> ""],
             [status |-> "cancelled", stage_detail |-> "Canc"]}
FinObs(fid) == {[status |-> k.status, stage_detail |-> k.stage_detail,
                 home_score |-> sp[1], away_score |-> sp[2]] :
                k \in FinKinds, sp \in ScorePairsOf(fid)}

\* The match lists a fetch can return: at most one entry per fixture_id.
Lists(ids, Entries(_)) ==
    UNION {{m \in [S -> UNION {Entries(fid) : fid \in S}] :
              \A fid \in S : m[fid] \in Entries(fid)} : S \in SUBSET ids}

NoMatches == <<>>

\* {m['fixture_id'] for m in matches}
Ids(matches) == DOMAIN matches

\* ------------------------------------------------------------------- dates

\* The date cells a row can hold: ISO, as dt.fromisoformat reads it, and
\* DD.MM.YYYY, as Sites/football_com/football_com.py and
\* Scripts/sync_to_supabase.py read the same column.
DateIso == "2026-02-07"
DateDotted == "07.02.2026"
Dates == {DateIso, DateDotted}
KickoffTime == "15:00"

\* dt.fromisoformat(f"{date}T{match_time}:00") raises ValueError
IsoParses(date, match_time) == date = DateIso /\ match_time = KickoffTime
\* dt.fromisoformat(...), in minutes since 2026-02-07T15:00:00
IsoMinutes(date, match_time) == 0

\* ---------------------------------------------------- _propagate (schedules)

\* The schedules iteration with the fallback firing at 150 minutes already
\* (`>=` for `>`).
SchedRowStepAtWindow(row, fid, live_matches, finished_matches, now) ==
    IF fid \in Ids(live_matches) THEN
        LET lm == live_matches[fid]
            r1 == IF row.status # "live" THEN [row EXCEPT !.status = "live"] ELSE row
            r2 == IF lm.home_score # ""
                  THEN [r1 EXCEPT !.home_score = lm.home_score,
                                  !.away_score = lm.away_score]
                  ELSE r1
        IN  [row |-> r2, changed |-> (row.status # "live") \/ (lm.home_score # "")]
    ELSE IF fid \in Ids(finished_matches) THEN
        LET fm == finished_matches[fid]
            terminal_status == fm.status
        IN  IF row.status # terminal_status
            THEN [row |-> [row EXCEPT !.status = terminal_status,
                                      !.home_score = fm.home_score,
                                      !.away_score = fm.away_score,
                                      !.stage_detail = IF fm.stage_detail # ""
                                                       THEN fm.stage_detail ELSE @],
                  changed |-> TRUE]
            ELSE [row |-> row, changed |-> FALSE]
    ELSE IF row.status = "live" THEN
        IF IsoParses(row.date, row.match_time)
           /\ now >= IsoMinutes(row.date, row.match_time) + FallbackMinutes
        THEN [row |-> [row EXCEPT !.status = "finished"], changed |-> TRUE]
        ELSE [row |-> row, changed |-> FALSE]
    ELSE [row |-> row, changed |-> FALSE]

\* One iteration of `for row in sched_rows`: the row after it and whether it
\* set sched_changed.
SchedRowStep(row, fid, live_matches, finished_matches, now) ==
    IF fid \in Ids(live_matches) THEN
        LET lm == live_matches[fid]
            r1 == IF row.status # "live" THEN [row EXCEPT !.status = "live"] ELSE row
            r2 == IF lm.home_score # ""
                  THEN [r1 EXCEPT !.home_score = lm.home_score,
                                  !.away_score = lm.away_score]
                  ELSE r1
        IN  [row |-> r2, changed |-> (row.status # "live") \/ (lm.home_score # "")]
    ELSE IF fid \in Ids(finished_matches) THEN
        LET fm == finished_matches[fid]
            terminal_status == fm.status
        IN  IF row.status # terminal_status
            THEN [row |-> [row EXCEPT !.status = terminal_status,
                                      !.home_score = fm.home_score,
                                      !.away_score = fm.away_score,
                                      !.stage_detail = IF fm.stage_detail # ""
                                                       THEN fm.stage_detail ELSE @],
                  changed |-> TRUE]
            ELSE [row |-> row, changed |-> FALSE]
    ELSE IF row.status = "live" THEN
        IF IsoParses(row.date, row.match_time)
           /\ now > IsoMinutes(row.date, row.match_time) + FallbackMinutes
        THEN [row |-> [row EXCEPT !.status = "finished"], changed |-> TRUE]
        ELSE [row |-> row, changed |-> FALSE]
    ELSE [row |-> row, changed |-> FALSE]

\* The schedules half writing the rows it changed to the file in place of
\* sched_rows.
PropagateSchedWritesDelta(sched_rows, live_matches, finished_matches, now) ==
    LET step == [k \in DOMAIN sched_rows |->
                    SchedRowStep(sched_rows[k], sched_rows[k].fixture_id,
                                 live_matches, finished_matches, now)]
        sched_changed == \E k \in DOMAIN sched_rows : step[k].changed
        delta == {k \in DOMAIN sched_rows : step[k].changed}
    IN  [rows |-> IF sched_changed THEN [k \in delta |-> step[k].row]
                                   ELSE sched_rows,
         written |-> sched_changed,
         updates |-> IF sched_changed
                     THEN {k \in DOMAIN sched_rows :
                             sched_rows[k].fixture_id
                               \in Ids(live_matches) \cup Ids(finished_matches)}
                     ELSE {}]

\* The schedules half of _propagate_status_updates: the rows after the loop,
\* whether the file is written, and sched_updates (the keys of the rows
\* returned).  A table maps a key to a row: the key is the fixture_id where
\* the table holds one row per fixture, the position in the file otherwise.
PropagateSched(sched_rows, live_matches, finished_matches, now) ==
    LET step == [k \in DOMAIN sched_rows |->
                    SchedRowStep(sched_rows[k], sched_rows[k].fixture_id,
                                 live_matches, finished_matches, now)]
        sched_changed == \E k \in DOMAIN sched_rows : step[k].changed
    IN  [rows |-> [k \in DOMAIN sched_rows |-> step[k].row],
         written |-> sched_changed,
         updates |-> IF sched_changed
                     THEN {k \in DOMAIN sched_rows :
                             sched_rows[k].fixture_id
                               \in Ids(live_matches) \cup Ids(finished_matches)}
                     ELSE {}]

\* -------------------------------------------------- _propagate (predictions)

\* f"{hs}-{as}"
ActualScore(hs, as) == <<hs, as>>

\* The verdict written whatever it is (without `if oc:`).
WithOutcomeAlways(row) ==
    [row EXCEPT !.outcome_correct =
        _compute_outcome_correct(row.prediction, row.home_score, row.away_score)]

\* `oc = _compute_outcome_correct(...); if oc: row['outcome_correct'] = oc`
WithOutcome(row) ==
    LET oc == _compute_outcome_correct(row.prediction, row.home_score, row.away_score)
    IN  IF oc # "" THEN [row EXCEPT !.outcome_correct = oc] ELSE row

\* The predictions iteration without the test `cur_status != terminal_status`:
\* a FINISHED entry is applied on every cycle.
PredRowStepNoStatusGuard(row, fid, live_matches, finished_matches, now) ==
    LET cur_status == row.status
    IN
    IF fid \in Ids(live_matches) THEN
        LET lm == live_matches[fid]
            new_hs == lm.home_score
            new_as == lm.away_score
            r1 == IF cur_status # "live" THEN [row EXCEPT !.status = "live"] ELSE row
            differs == row.home_score # new_hs \/ row.away_score # new_as
            r2 == IF differs
                  THEN [r1 EXCEPT !.home_score = new_hs, !.away_score = new_as,
                                  !.actual_score = ActualScore(new_hs, new_as)]
                  ELSE r1
        IN  [row |-> r2, changed |-> (cur_status # "live") \/ differs]
    ELSE IF fid \in Ids(finished_matches) THEN
        LET fm == finished_matches[fid]
            terminal_status == fm.status
        IN  IF TRUE
            THEN [row |-> WithOutcome(
                            [row EXCEPT !.status = terminal_status,
                                        !.home_score = fm.home_score,
                                        !.away_score = fm.away_score,
                                        !.actual_score = ActualScore(fm.home_score,
                                                                     fm.away_score),
                                        !.stage_detail = IF fm.stage_detail # ""
                                                         THEN fm.stage_detail ELSE @]),
                  changed |-> TRUE]
            ELSE [row |-> row, changed |-> FALSE]
    ELSE IF cur_status = "live" THEN
        IF IsoParses(row.date, row.match_time)
           /\ now > IsoMinutes(row.date, row.match_time) + FallbackMinutes
        THEN [row |-> WithOutcome([row EXCEPT !.status = "finished"]),
              changed |-> TRUE]
        ELSE [row |-> row, changed |-> FALSE]
    ELSE [row |-> row, changed |-> FALSE]

\* The predictions iteration applying a FINISHED entry to a live row only.
PredRowStepFinishFromLive(row, fid, live_matches, finished_matches, now) ==
    LET cur_status == row.status
    IN
    IF fid \in Ids(live_matches) THEN
        LET lm == live_matches[fid]
            new_hs == lm.home_score
            new_as == lm.away_score
            r1 == IF cur_status # "live" THEN [row EXCEPT !.status = "live"] ELSE row
            differs == row.home_score # new_hs \/ row.away_score # new_as
            r2 == IF differs
                  THEN [r1 EXCEPT !.home_score = new_hs, !.away_score = new_as,
                                  !.actual_score = ActualScore(new_hs, new_as)]
                  ELSE r1
        IN  [row |-> r2, changed |-> (cur_status # "live") \/ differs]
    ELSE IF fid \in Ids(finished_matches) THEN
        LET fm == finished_matches[fid]
            terminal_status == fm.status
        IN  IF cur_status = "live"
            THEN [row |-> WithOutcome(
                            [row EXCEPT !.status = terminal_status,
                                        !.home_score = fm.home_score,
                                        !.away_score = fm.away_score,
                                        !.actual_score = ActualScore(fm.home_score,
                                                                     fm.away_score),
                                        !.stage_detail = IF fm.stage_detail # ""
                                                         THEN fm.stage_detail ELSE @]),
                  changed |-> TRUE]
            ELSE [row |-> row, changed |-> FALSE]
    ELSE IF cur_status = "live" THEN
        IF IsoParses(row.date, row.match_time)
           /\ now > IsoMinutes(row.date, row.match_time) + FallbackMinutes
        THEN [row |-> WithOutcome([row EXCEPT !.status = "finished"]),
              changed |-> TRUE]
        ELSE [row |-> row, changed |-> FALSE]
    ELSE [row |-> row, changed |-> FALSE]

\* One iteration of `for row in pred_rows`: the row after it and whether it
\* was appended to pred_updates.
PredRowStep(row, fid, live_matches, finished_matches, now) ==
    LET cur_status == row.status
    IN
    IF fid \in Ids(live_matches) THEN
        LET lm == live_matches[fid]
            new_hs == lm.home_score
            new_as == lm.away_score
            r1 == IF cur_status # "live" THEN [row EXCEPT !.status = "live"] ELSE row
            differs == row.home_score # new_hs \/ row.away_score # new_as
            r2 == IF differs
                  THEN [r1 EXCEPT !.home_score = new_hs, !.away_score = new_as,
                                  !.actual_score = ActualScore(new_hs, new_as)]
                  ELSE r1
        IN  [row |-> r2, changed |-> (cur_status # "live") \/ differs]
    ELSE IF fid \in Ids(finished_matches) THEN
        LET fm == finished_matches[fid]
            terminal_status == fm.status
        IN  IF cur_status # terminal_status
            THEN [row |-> WithOutcome(
                            [row EXCEPT !.status = terminal_status,
                                        !.home_score = fm.home_score,
                                        !.away_score = fm.away_score,
                                        !.actual_score = ActualScore(fm.home_score,
                                                                     fm.away_score),
                                        !.stage_detail = IF fm.stage_detail # ""
                                                         THEN fm.stage_detail ELSE @]),
                  changed |-> TRUE]
            ELSE [row |-> row, changed |-> FALSE]
    ELSE IF cur_status = "live" THEN
        IF IsoParses(row.date, row.match_time)
           /\ now > IsoMinutes(row.date, row.match_time) + FallbackMinutes
        THEN [row |-> WithOutcome([row EXCEPT !.status = "finished"]),
              changed |-> TRUE]
        ELSE [row |-> row, changed |-> FALSE]
    ELSE [row |-> row, changed |-> FALSE]

\* The predictions half of _propagate_status_updates.
PropagatePred(pred_rows, live_matches, finished_matches, now) ==
    LET step == [k \in DOMAIN pred_rows |->
                    PredRowStep(pred_rows[k], pred_rows[k].fixture_id,
                                live_matches, finished_matches, now)]
        pred_changed == \E k \in DOMAIN pred_rows : step[k].changed
    IN  [rows |-> [k \in DOMAIN pred_rows |-> step[k].row],
         written |-> pred_changed,
         updates |-> {k \in DOMAIN pred_rows : step[k].changed}]

\* ------------------------------------------------------------------- purge

\* The purge writing existing_rows back instead of kept_rows.
PurgeStaleKeepsRows(existing_rows, current_live_ids) ==
    LET existing_ids == DOMAIN existing_rows
        stale_ids == existing_ids \ current_live_ids
    IN  [rows |-> existing_rows, stale_ids |-> stale_ids]

\* _purge_stale_live_scores: the rows kept in live_scores.csv and the
\* stale_ids returned.
PurgeStale(existing_rows, current_live_ids) ==
    LET existing_ids == DOMAIN existing_rows
        stale_ids == existing_ids \ current_live_ids
    IN  [rows |-> [fid \in existing_ids \ stale_ids |-> existing_rows[fid]],
         stale_ids |-> stale_ids]

\* ------------------------------------------------------------ the program

VARIABLES
    schedules,          \* schedules.csv: fixture_id -> row
    predictions,        \* predictions.csv: fixture_id -> row
    live_scores,        \* live_scores.csv: fixture_id -> row
    now,                \* dt.now(), minutes since 2026-02-07T15:00:00
    pc,                 \* where the loop of live_score_streamer stands
    live_matches,       \* this cycle's _extract_live_matches
    finished_matches,   \* this cycle's _extract_finished_matches
    stale_ids,          \* this cycle's _purge_stale_live_scores
    sched_upd,          \* this cycle's sched_updates (fixture_ids)
    pred_upd,           \* this cycle's pred_updates (fixture_ids)
    supabase,           \* sync.supabase is truthy
    remote_calls,       \* the calls this cycle made on the remote store
    steady_obs,         \* history: per prediction row, the observation it
                        \* entered its terminal status on, while every later
                        \* cycle brought that observation again or none
    eval_call,          \* SpecEval: the arguments of the evaluator
    eval_ret,           \* SpecEval: what it returned
    browser,            \* the browser of the coroutine: none, open or closed
    closes,             \* how many times browser.close() was called
    faults,             \* history: the steps of this cycle that raised
    remote,             \* the schedules and predictions tables of the remote
    remote_up,          \* the remote store accepts every write from now on
    stop_cause,         \* why the loop was left: none, cancel or fatal
    mem,                \* SpecIO: the table read into memory and not yet
                        \* written back: its name, the rows as read, the
                        \* rows as changed since
    io,                 \* SpecIO: how often this cycle read and wrote each
                        \* table
    other               \* SpecIO: history, the tables another task of the
                        \* event loop has added its row to

vars == <<schedules, predictions, live_scores, now, pc, live_matches,
          finished_matches, stale_ids, sched_upd, pred_upd, supabase,
          remote_calls, steady_obs, eval_call, eval_ret, browser, closes,
          faults, remote, remote_up, stop_cause, mem, io, other>>

\* What only the specification with faults changes.
faultVars == <<browser, closes, faults, remote, remote_up, stop_cause>>

\* What SpecEval alone changes.
evalVars == <<eval_call, eval_ret>>

\* What only the specification of the file accesses changes.
ioVars == <<mem, io, other>>

\* The three tables.
Tables == {"schedules", "predictions", "live_scores"}

\* No table in memory; no access counted; no row of another task.
NoMem == [table |-> "none", read |-> <<>>, rows |-> <<>>, changed |-> FALSE]
NoIO == [read |-> [t \in Tables |-> 0], write |-> [t \in Tables |-> 0]]
NoOther == {}

\* The prediction texts of the model's predictions.csv.
TextHomeWin == <<"H","o","m","e"," ","w","i","n">>
TextCorrectScore == <<"C","o","r","r","e","c","t"," ","S","c","o","r","e"," ",
                      "2","-","1">>
PredictionTexts == {TextHomeWin, TextCorrectScore}

\* The date cells of a fixture's rows: both formats for a fixture with a
\* prediction row, the ISO one for the others.
DatesOf(fid) == IF fid \in PredIds THEN Dates ELSE {DateIso}

\* The rows the ingestion leaves for a fixture that has not started.
NewSchedRows(fid) ==
    {[fixture_id |-> fid, status |-> "scheduled", home_score |-> "",
      away_score |-> "", stage_detail |-> "", date |-> d,
      match_time |-> KickoffTime] :
     d \in DatesOf(fid)}
NewPredRows(fid) ==
    {[fixture_id |-> fid, status |-> "scheduled", home_score |-> "",
      away_score |-> "", actual_score |-> <<>>, stage_detail |-> "",
      outcome_correct |-> "", prediction |-> t,
      date |-> d, match_time |-> KickoffTime] :
     d \in DatesOf(fid), t \in PredictionTexts}

\* The remote store where its tables are not followed.
NoRemote ==
    [schedules |-> NoMatches, predictions |-> NoMatches, live_scores |-> {}]

Init ==
    /\ schedules \in Lists(SchedIds, NewSchedRows)
    /\ DOMAIN schedules = SchedIds
    /\ predictions \in Lists(PredIds, NewPredRows)
    /\ DOMAIN predictions = PredIds
    /\ live_scores = NoMatches
    /\ now = StartNow
    /\ pc = "fetch_live"
    /\ live_matches = NoMatches
    /\ finished_matches = NoMatches
    /\ stale_ids = {}
    /\ sched_upd = {}
    /\ pred_upd = {}
    /\ supabase \in BOOLEAN
    /\ remote_calls = <<>>
    /\ steady_obs = [fid \in PredIds |-> {}]
    /\ eval_call = <<>>
    /\ eval_ret = ""
    /\ browser = "open"
    /\ closes = 0
    /\ faults = {}
    /\ remote = NoRemote
    /\ remote_up = TRUE
    /\ stop_cause = "none"
    /\ mem = NoMem
    /\ io = NoIO
    /\ other = NoOther

\* PHASE 1: `live_matches = await _extract_live_matches(page)`.
FetchLive ==
    /\ pc = "fetch_live"
    /\ \E lm \in Lists(Fixtures, LiveObs) : live_matches' = lm
    /\ pc' = "fetch_finished"
    /\ UNCHANGED <<schedules, predictions, live_scores, now, finished_matches,
                   stale_ids, sched_upd, pred_upd, supabase, remote_calls,
                   steady_obs, evalVars, faultVars,
                   ioVars>>

\* PHASE 2: `finished_matches = await _extract_finished_matches(page)`, or
\* [] when the FINISHED tab could not be clicked.
FetchFinished ==
    /\ pc = "fetch_finished"
    /\ \E fm \in Lists(Fixtures, FinObs) : finished_matches' = fm
    /\ pc' = "local"
    /\ UNCHANGED <<schedules, predictions, live_scores, now, live_matches,
                   stale_ids, sched_upd, pred_upd, supabase, remote_calls,
                   steady_obs, evalVars, faultVars,
                   ioVars>>

\* save_live_score_entry(m) for m in live_matches: the row of the fixture_id
\* is written over, or added.
SaveLiveScoreEntries(rows, matches) ==
    [fid \in DOMAIN rows \cup Ids(matches) |->
        IF fid \in Ids(matches) THEN matches[fid] ELSE rows[fid]]

\* The terminal statuses the FINISHED tab and the fallback write.
Terminal(status) == status \in {"finished", "cancelled"}

\* What a cycle observed of a fixture: its LIVE entry and its FINISHED entry,
\* each as a set of at most one element.
ObsOf(fid, lm, fm) ==
    [live |-> IF fid \in Ids(lm) THEN {lm[fid]} ELSE {},
     fin |-> IF fid \in Ids(fm) THEN {fm[fid]} ELSE {}]
NoObs == [live |-> {}, fin |-> {}]

\* The history steady_obs of one prediction row after a cycle.
SteadyAfter(steady, before, after, obs) ==
    IF ~Terminal(before) /\ Terminal(after) THEN {obs}
    ELSE IF Terminal(before) /\ Terminal(after) /\ steady # {}
            /\ obs \in steady \cup {NoObs} THEN steady
    ELSE {}

\* PHASE 3 and the local part of PHASE 4, which no await interrupts: the
\* purge, the save of the live matches and _propagate_status_updates (called
\* with two empty lists when nothing was scraped).
LocalPhase ==
    /\ pc = "local"
    /\ LET current_live_ids == Ids(live_matches)
           purged == PurgeStale(live_scores, current_live_ids)
           scraped == live_matches # NoMatches \/ finished_matches # NoMatches
           sched == PropagateSched(schedules, live_matches, finished_matches, now)
           pred == PropagatePred(predictions, live_matches, finished_matches, now)
       IN  /\ stale_ids' = purged.stale_ids
           /\ live_scores' = IF scraped
                             THEN SaveLiveScoreEntries(purged.rows, live_matches)
                             ELSE purged.rows
           /\ schedules' = sched.rows
           /\ sched_upd' = sched.updates
           /\ predictions' = pred.rows
           /\ pred_upd' = pred.updates
    /\ pc' = "sync"
    /\ steady_obs' = [fid \in PredIds |->
                        SteadyAfter(steady_obs[fid], predictions[fid].status,
                                    predictions'[fid].status,
                                    ObsOf(fid, live_matches, finished_matches))]
    /\ UNCHANGED <<now, live_matches, finished_matches, supabase, remote_calls,
                   evalVars, faultVars,
                   ioVars>>

\* A call on the remote store: the operation, the table and the fixture_ids
\* of the rows sent (an upsert) or named (a delete).
Call(op, table, ids) == [op |-> op, table |-> table, ids |-> ids]

\* The calls of the branch `if live_matches or finished_matches`.
SyncCallsScraped ==
    (IF live_matches # NoMatches
     THEN <<Call("upsert", "live_scores", Ids(live_matches))>> ELSE <<>>)
    \o (IF stale_ids # {} THEN <<Call("delete", "live_scores", stale_ids)>> ELSE <<>>)
    \o (IF pred_upd # {} THEN <<Call("upsert", "predictions", pred_upd)>> ELSE <<>>)
    \o (IF sched_upd # {} THEN <<Call("upsert", "schedules", sched_upd)>> ELSE <<>>)

\* The branch taken when nothing was scraped, without its remote purge.
SyncCallsEmptyNoDelete ==
    (IF pred_upd # {} THEN <<Call("upsert", "predictions", pred_upd)>> ELSE <<>>)
    \o (IF sched_upd # {} THEN <<Call("upsert", "schedules", sched_upd)>> ELSE <<>>)

\* The calls of the branch taken when nothing was scraped.
SyncCallsEmpty ==
    (IF pred_upd # {} THEN <<Call("upsert", "predictions", pred_upd)>> ELSE <<>>)
    \o (IF sched_upd # {} THEN <<Call("upsert", "schedules", sched_upd)>> ELSE <<>>)
    \o (IF stale_ids # {} THEN <<Call("delete", "live_scores", stale_ids)>> ELSE <<>>)

\* The cloud sync placed before the predictions half of the propagation.
CloudSyncBeforeCommit ==
    /\ pc = "pred_read"
    /\ remote_calls' =
          IF ~supabase THEN <<>>
          ELSE IF live_matches # NoMatches \/ finished_matches # NoMatches
               THEN SyncCallsScraped
               ELSE SyncCallsEmpty
    /\ pc' = "sleep"
    /\ UNCHANGED <<schedules, predictions, live_scores, now, live_matches,
                   finished_matches, stale_ids, sched_upd, pred_upd, supabase,
                   steady_obs, evalVars, faultVars,
                   ioVars>>

\* The cloud sync of PHASE 4.
CloudSync ==
    /\ pc = "sync"
    /\ remote_calls' =
          IF ~supabase THEN <<>>
          ELSE IF live_matches # NoMatches \/ finished_matches # NoMatches
               THEN SyncCallsScraped
               ELSE SyncCallsEmpty
    /\ pc' = "sleep"
    /\ UNCHANGED <<schedules, predictions, live_scores, now, live_matches,
                   finished_matches, stale_ids, sched_upd, pred_upd, supabase,
                   steady_obs, evalVars, faultVars,
                   ioVars>>

\* `await asyncio.sleep(STREAM_INTERVAL)`, and the next cycle's start: the
\* cycle's locals are assigned again before they are read.
Sleep ==
    /\ pc = "sleep"
    /\ now' = IF now + StreamIntervalMinutes > MaxNow THEN MaxNow
                                                      ELSE now + StreamIntervalMinutes
    /\ pc' = "fetch_live"
    /\ live_matches' = NoMatches
    /\ finished_matches' = NoMatches
    /\ stale_ids' = {}
    /\ sched_upd' = {}
    /\ pred_upd' = {}
    /\ remote_calls' = <<>>
    /\ faults' = {}
    /\ UNCHANGED <<schedules, predictions, live_scores, supabase, steady_obs,
                   evalVars, browser, closes, remote, remote_up, stop_cause,
                   ioVars>>

Next == FetchLive \/ FetchFinished \/ LocalPhase \/ CloudSync \/ Sleep

Spec == Init /\ [][Next]_vars

\* ---------------------------------------------------------------- SpecEval

\* The prediction texts the evaluator is applied to.
TextOver25Goals == <<"O","v","e","r"," ","2",".","5"," ","G","o","a","l","s">>
TextAwayWinUpper == <<"A","W","A","Y"," ","W","I","N">>
TextDraw == <<"D","r","a","w">>
TextUnder25 == <<"U","n","d","e","r"," ","2",".","5">>
TextBttsYes == <<"B","T","T","S"," ","Y","e","s">>
TextBothTeams == <<"B","o","t","h"," ","T","e","a","m","s"," ","T","o"," ",
                   "S","c","o","r","e">>
TextHomeWinOrDraw == <<"H","o","m","e"," ","w","i","n"," ","o","r"," ",
                       "D","r","a","w">>
TextOver15 == <<"O","v","e","r"," ","1",".","5">>
TextEmpty == <<>>
TextDrawOrAwayWin == <<"D","r","a","w"," ","o","r"," ","a","w","a","y"," ",
                       "w","i","n">>
TextOver25AndBtts == <<"O","v","e","r"," ","2",".","5"," ","&"," ","B","T","T","S">>
EvalTexts == {TextOver25Goals, TextHomeWin, TextCorrectScore, TextAwayWinUpper,
              TextDraw, TextUnder25, TextBttsYes, TextBothTeams,
              TextHomeWinOrDraw, TextOver15, TextEmpty, TextDrawOrAwayWin,
              TextOver25AndBtts}
\* The score cells it is applied to: the integers and the empty cell.
EvalScores == {ScoreStr(n) : n \in 0..MaxEvalScore} \cup {""}

InitEval ==
    /\ schedules = NoMatches
    /\ predictions = NoMatches
    /\ live_scores = NoMatches
    /\ now = StartNow
    /\ pc = "eval"
    /\ live_matches = NoMatches
    /\ finished_matches = NoMatches
    /\ stale_ids = {}
    /\ sched_upd = {}
    /\ pred_upd = {}
    /\ supabase = FALSE
    /\ remote_calls = <<>>
    /\ steady_obs = NoMatches
    /\ eval_call \in EvalTexts \X EvalScores \X EvalScores
    /\ eval_ret = "pending"
    /\ browser = "none"
    /\ closes = 0
    /\ faults = {}
    /\ remote = NoRemote
    /\ remote_up = TRUE
    /\ stop_cause = "none"
    /\ mem = NoMem
    /\ io = NoIO
    /\ other = NoOther

\* One call of _compute_outcome_correct.
Evaluate ==
    /\ pc = "eval"
    /\ eval_ret' = _compute_outcome_correct(eval_call[1], eval_call[2], eval_call[3])
    /\ pc' = "evaluated"
    /\ UNCHANGED <<schedules, predictions, live_scores, now, live_matches,
                   finished_matches, stale_ids, sched_upd, pred_upd, supabase,
                   remote_calls, steady_obs, eval_call, faultVars,
                   ioVars>>

NextEval == Evaluate

SpecEval == InitEval /\ [][NextEval]_vars

\* ----------------------------------------------------------- SpecPropagate

\* _propagate_status_updates alone, called again and again on tables that
\* start as the ingestion leaves them.  The tables are the files' row lists,
\* keyed by position: schedules.csv holds f1 twice or f1 and f2,
\* predictions.csv holds f1, and the lists name f2 as well.  The page scripts
\* set every key of an entry (lines 319-330, 423-436); a score or a stage
\* text the page does not show arrives as the empty string.
PropPairs ==
    {<<ScoreStr(MaxScore), ScoreStr(0)>>, <<ScoreStr(0), ScoreStr(MaxScore)>>,
     <<"", "">>, <<ScoreStr(MaxScore), "">>}
PropFinPairs == {<<ScoreStr(MaxScore), ScoreStr(0)>>, <<"", "">>}

PropLiveObs(fid) ==
    {[home_score |-> sp[1], away_score |-> sp[2]] :
     sp \in IF fid = F1 THEN PropPairs ELSE {<<ScoreStr(MaxScore), ScoreStr(0)>>}}
PropFinObs(fid) ==
    IF fid = F1
    THEN {[status |-> k.status, stage_detail |-> k.stage_detail,
           home_score |-> sp[1], away_score |-> sp[2]] :
          k \in FinKinds, sp \in PropFinPairs}
    ELSE {[status |-> "finished", stage_detail |-> "",
           home_score |-> ScoreStr(MaxScore), away_score |-> ScoreStr(0)]}

\* A row of each table as the ingestion leaves it, with an ISO date.
PropSchedRow(fid) ==
    [fixture_id |-> fid, status |-> "scheduled", home_score |-> "",
     away_score |-> "", stage_detail |-> "", date |-> DateIso,
     match_time |-> KickoffTime]
PropPredRow(fid) ==
    [fixture_id |-> fid, status |-> "scheduled", home_score |-> "",
     away_score |-> "", actual_score |-> <<>>, stage_detail |-> "",
     outcome_correct |-> "", prediction |-> TextHomeWin,
     date |-> DateIso, match_time |-> KickoffTime]

InitPropagate ==
    /\ schedules \in {<<PropSchedRow(F1), PropSchedRow(F2)>>,
                      <<PropSchedRow(F1), PropSchedRow(F1)>>}
    /\ predictions = <<PropPredRow(F1)>>
    /\ live_scores = NoMatches
    /\ now = StartNow
    /\ pc = "idle"
    /\ live_matches = NoMatches
    /\ finished_matches = NoMatches
    /\ stale_ids = {}
    /\ sched_upd = {}
    /\ pred_upd = {}
    /\ supabase = FALSE
    /\ remote_calls = <<>>
    /\ steady_obs = NoMatches
    /\ eval_call = <<>>
    /\ eval_ret = ""
    /\ browser = "none"
    /\ closes = 0
    /\ faults = {}
    /\ remote = NoRemote
    /\ remote_up = TRUE
    /\ stop_cause = "none"
    /\ mem = NoMem
    /\ io = NoIO
    /\ other = NoOther

\* The arguments of one call, and `now = dt.now()`.
PropCall ==
    /\ pc = "idle"
    /\ \E lm \in Lists(Fixtures, PropLiveObs) : live_matches' = lm
    /\ \E fm \in Lists(Fixtures, PropFinObs) : finished_matches' = fm
    /\ \E d \in {0, StreamIntervalMinutes} :
          now' = IF now + d > MaxNow THEN MaxNow ELSE now + d
    /\ pc' = "called"
    /\ UNCHANGED <<schedules, predictions, live_scores, stale_ids, sched_upd,
                   pred_upd, supabase, remote_calls, steady_obs, evalVars,
                   faultVars,
                   ioVars>>

\* The call: both files after it and the two lists it returns.
PropApply ==
    /\ pc = "called"
    /\ LET sched == PropagateSched(schedules, live_matches, finished_matches, now)
           pred == PropagatePred(predictions, live_matches, finished_matches, now)
       IN  /\ schedules' = sched.rows
           /\ sched_upd' = sched.updates
           /\ predictions' = pred.rows
           /\ pred_upd' = pred.updates
    /\ pc' = "applied"
    /\ UNCHANGED <<live_scores, now, live_matches, finished_matches, stale_ids,
                   supabase, remote_calls, steady_obs, evalVars, faultVars,
                   ioVars>>

\* The caller drops the lists.
PropReturn ==
    /\ pc = "applied"
    /\ live_matches' = NoMatches
    /\ finished_matches' = NoMatches
    /\ sched_upd' = {}
    /\ pred_upd' = {}
    /\ pc' = "idle"
    /\ UNCHANGED <<schedules, predictions, live_scores, now, stale_ids,
                   supabase, remote_calls, steady_obs, evalVars, faultVars,
                   ioVars>>

NextPropagate == PropCall \/ PropApply \/ PropReturn

SpecPropagate == InitPropagate /\ [][NextPropagate]_vars

\* --------------------------------------------------------------- SpecFault

\* The whole coroutine with its faults: an awaited call returns, raises, or
\* is cancelled.  CancelledError is not an Exception (Python 3.8 and later,
\* which the playwright package requires), so `except Exception` lets it
\* through.  The tables hold one ISO-dated row per fixture, the tabs show
\* one score and one terminal status, and the FINISHED tab the fixtures that
\* have a prediction row.
localTables == <<schedules, predictions, live_scores>>
tickVars == <<live_matches, finished_matches, stale_ids, sched_upd, pred_upd>>

FaultLiveObs(fid) ==
    {[home_score |-> ScoreStr(MaxScore), away_score |-> ScoreStr(0)]}
FaultFinObs(fid) ==
    {[status |-> "finished", stage_detail |-> "",
      home_score |-> ScoreStr(MaxScore), away_score |-> ScoreStr(0)]}

InitFault ==
    /\ schedules = [fid \in SchedIds |-> PropSchedRow(fid)]
    /\ predictions = [fid \in PredIds |-> PropPredRow(fid)]
    /\ live_scores = NoMatches
    /\ now = StartNow
    /\ pc = "launch"
    /\ live_matches = NoMatches
    /\ finished_matches = NoMatches
    /\ stale_ids = {}
    /\ sched_upd = {}
    /\ pred_upd = {}
    /\ supabase \in BOOLEAN
    /\ remote_calls = <<>>
    /\ steady_obs = [fid \in PredIds |-> {}]
    /\ eval_call = <<>>
    /\ eval_ret = ""
    /\ browser = "none"
    /\ closes = 0
    /\ faults = {}
    /\ remote = [schedules |-> schedules, predictions |-> predictions,
                 live_scores |-> {}]
    /\ remote_up = FALSE
    /\ stop_cause = "none"
    /\ mem = NoMem
    /\ io = NoIO
    /\ other = NoOther

\* `browser = await playwright.chromium.launch(...)`: it returns, or raises
\* into the outer `except Exception`.
Launch ==
    /\ pc = "launch"
    /\ \/ browser' = "open" /\ pc' = "startup" /\ stop_cause' = stop_cause
       \/ browser' = browser /\ pc' = "fatal" /\ stop_cause' = "fatal"
    /\ UNCHANGED <<localTables, tickVars, now, supabase, remote_calls,
                   steady_obs, evalVars, closes, faults, remote, remote_up,
                   ioVars>>

\* new_context, new_page, the first goto, the popup dismissal, the LIVE tab
\* and SyncManager(): all before the loop's own try.
Startup ==
    /\ pc = "startup"
    /\ \/ pc' = "fetch_live" /\ stop_cause' = stop_cause
       \/ pc' = "fatal" /\ stop_cause' = "fatal"
    /\ UNCHANGED <<localTables, tickVars, now, supabase, remote_calls,
                   steady_obs, evalVars, browser, closes, faults, remote,
                   remote_up,
                   ioVars>>

\* PHASE 1 with its fault: page.evaluate of _extract_live_matches (line 272)
\* is in no try of its own and raises into the cycle's `except Exception`.
FaultFetchLive ==
    /\ pc = "fetch_live"
    /\ \/ /\ \E lm \in Lists(Fixtures, FaultLiveObs) : live_matches' = lm
          /\ pc' = "fetch_finished"
          /\ faults' = faults
       \/ /\ live_matches' = live_matches
          /\ pc' = "handler"
          /\ faults' = faults \cup {"fetch_live"}
    /\ UNCHANGED <<localTables, now, finished_matches, stale_ids, sched_upd,
                   pred_upd, supabase, remote_calls, steady_obs, evalVars,
                   browser, closes, remote, remote_up, stop_cause,
                   ioVars>>

\* PHASE 2 with its faults: _click_finished_tab returns False (the list
\* stays []), or page.evaluate of _extract_finished_matches (line 358)
\* raises into the cycle's `except Exception`.
FaultFetchFinished ==
    /\ pc = "fetch_finished"
    /\ \/ /\ \E fm \in Lists(PredIds, FaultFinObs) : finished_matches' = fm
          /\ pc' = "local"
          /\ faults' = faults
       \/ /\ finished_matches' = NoMatches
          /\ pc' = "local"
          /\ faults' = faults \cup {"click_finished"}
       \/ /\ finished_matches' = finished_matches
          /\ pc' = "handler"
          /\ faults' = faults \cup {"fetch_finished"}
    /\ UNCHANGED <<localTables, now, live_matches, stale_ids, sched_upd,
                   pred_upd, supabase, remote_calls, steady_obs, evalVars,
                   browser, closes, remote, remote_up, stop_cause,
                   ioVars>>

\* The name a failure of a remote call is recorded under.
CallName(c) ==
    CASE c.op = "delete" -> "delete_live_scores"
      [] c.op = "upsert" /\ c.table = "live_scores" -> "upsert_live_scores"
      [] c.op = "upsert" /\ c.table = "predictions" -> "upsert_predictions"
      [] OTHER -> "upsert_schedules"
RemoteOps == {"upsert_live_scores", "delete_live_scores", "upsert_predictions",
              "upsert_schedules"}

IsUpsert(c) == c.op = "upsert"
IsDelete(c) == c.op = "delete"

\* The calls of one try block that are reached when the calls named in
\* `failing` raise: those up to the first `await sync.batch_upsert` that
\* raises.  A delete that raises is caught by the try around it alone
\* (lines 574-579).
UpToFirstRaise(calls, failing) ==
    LET breaks == {i \in 1..Len(calls) :
                     IsUpsert(calls[i]) /\ CallName(calls[i]) \in failing}
    IN  IF breaks = {} THEN calls
        ELSE SubSeq(calls, 1, CHOOSE i \in breaks : \A j \in breaks : i <= j)

\* The calls attempted by the branch `if live_matches or finished_matches`:
\* one try block around the four (lines 568-587).
SyncAttemptsScraped(failing) == UpToFirstRaise(SyncCallsScraped, failing)

\* The calls attempted when nothing was scraped: a try block around the two
\* upserts (lines 593-599), then the delete in its own (lines 602-608).
SyncAttemptsEmpty(failing) ==
    UpToFirstRaise(SelectSeq(SyncCallsEmpty, IsUpsert), failing)
    \o SelectSeq(SyncCallsEmpty, IsDelete)

\* The cloud sync without the tests of sync.supabase.
SyncAttemptsNoSupabaseTest(failing) ==
    IF live_matches # NoMatches \/ finished_matches # NoMatches
    THEN SyncAttemptsScraped(failing)
    ELSE SyncAttemptsEmpty(failing)

\* The calls a cycle attempts on the remote store.
SyncAttempts(failing) ==
    IF ~supabase THEN <<>>
    ELSE IF live_matches # NoMatches \/ finished_matches # NoMatches
         THEN SyncAttemptsScraped(failing)
         ELSE SyncAttemptsEmpty(failing)

\* The fixture_ids of the rows the remote store took for a table.
Upserted(table, attempts, failing) ==
    UNION {attempts[i].ids :
           i \in {j \in 1..Len(attempts) :
                    /\ IsUpsert(attempts[j])
                    /\ attempts[j].table = table
                    /\ CallName(attempts[j]) \notin failing}}

\* One table of the remote store after the upsert of the local rows `ids`.
UpsertRows(remote_rows, local_rows, ids) ==
    [fid \in DOMAIN remote_rows \cup ids |->
        IF fid \in ids THEN local_rows[fid] ELSE remote_rows[fid]]

\* The remote store after the attempted calls that did not raise.
RemoteAfter(rem, attempts, failing) ==
    [schedules |-> UpsertRows(rem.schedules, schedules,
                              Upserted("schedules", attempts, failing)),
     predictions |-> UpsertRows(rem.predictions, predictions,
                                Upserted("predictions", attempts, failing)),
     live_scores |-> rem.live_scores]

\* The cloud sync of PHASE 4 with its faults: each call returns or raises,
\* and none raises once the remote store is up.
FaultCloudSync ==
    /\ pc = "sync"
    /\ \E failing \in SUBSET RemoteOps :
          LET attempts == SyncAttempts(failing)
          IN  /\ remote_up => failing = {}
              /\ failing \subseteq {CallName(attempts[i]) : i \in 1..Len(attempts)}
              /\ remote_calls' = attempts
              /\ faults' = faults \cup failing
              /\ remote' = RemoteAfter(remote, attempts, failing)
    /\ pc' = "sleep"
    /\ UNCHANGED <<localTables, tickVars, now, supabase, steady_obs, evalVars,
                   browser, closes, remote_up, stop_cause,
                   ioVars>>

\* The handler losing the exception of its own goto: without the inner
\* `except Exception: pass` it reaches the outer `except Exception`.
HandlerReraises ==
    /\ pc = "handler"
    /\ \/ pc' = "sleep" /\ faults' = faults /\ stop_cause' = stop_cause
       \/ pc' = "fatal" /\ faults' = faults \cup {"renavigate"}
          /\ stop_cause' = "fatal"
    /\ UNCHANGED <<localTables, tickVars, now, supabase, remote_calls,
                   steady_obs, evalVars, browser, closes, remote, remote_up,
                   ioVars>>

\* `except Exception as e:` of the cycle (lines 613-621): the page is
\* navigated again, and what that raises is dropped.
Handler ==
    /\ pc = "handler"
    /\ \/ pc' = "sleep" /\ faults' = faults /\ stop_cause' = stop_cause
       \/ pc' = "sleep" /\ faults' = faults \cup {"renavigate"}
          /\ stop_cause' = stop_cause
    /\ UNCHANGED <<localTables, tickVars, now, supabase, remote_calls,
                   steady_obs, evalVars, browser, closes, remote, remote_up,
                   ioVars>>

\* The awaits of the coroutine, where task.cancel() raises CancelledError.
\* The purge, the save and _propagate_status_updates hold none.
Suspended == {"launch", "startup", "fetch_live", "fetch_finished", "handler",
              "sleep"}

\* CancelledError at an await: no `except Exception` on the way catches it,
\* and `except asyncio.CancelledError` (line 625) does.  In the cloud sync it
\* is raised by an `await sync.batch_upsert`, after the calls before it.
Cancel ==
    /\ \/ /\ pc \in Suspended
          /\ UNCHANGED <<remote_calls, remote>>
       \/ /\ pc = "sync"
          /\ \E n \in 1..Len(SyncAttempts({})) :
                /\ IsUpsert(SyncAttempts({})[n])
                /\ remote_calls' = SubSeq(SyncAttempts({}), 1, n)
                /\ remote' = RemoteAfter(remote, SubSeq(SyncAttempts({}), 1, n - 1), {})
    /\ pc' = "cancelled"
    /\ stop_cause' = "cancel"
    /\ UNCHANGED <<localTables, tickVars, now, supabase, steady_obs, evalVars,
                   browser, closes, faults, remote_up,
                   ioVars>>

\* The finally clause without its browser.close().
FinallyNoClose ==
    /\ pc \in {"cancelled", "fatal"}
    /\ pc' = "returned"
    /\ UNCHANGED <<localTables, tickVars, now, supabase, remote_calls,
                   steady_obs, evalVars, browser, closes, faults, remote,
                   remote_up, stop_cause,
                   ioVars>>

\* `finally: if browser: await browser.close()` (lines 630-636), after
\* either except clause; then the coroutine returns.
Finally ==
    /\ pc \in {"cancelled", "fatal"}
    /\ IF browser = "open"
       THEN browser' = "closed" /\ closes' = closes + 1
       ELSE UNCHANGED <<browser, closes>>
    /\ pc' = "returned"
    /\ UNCHANGED <<localTables, tickVars, now, supabase, remote_calls,
                   steady_obs, evalVars, faults, remote, remote_up, stop_cause,
                   ioVars>>

\* The remote store comes up for good.
Recover ==
    /\ pc = "sleep"
    /\ ~remote_up
    /\ remote_up' = TRUE
    /\ UNCHANGED <<localTables, tickVars, now, pc, supabase, remote_calls,
                   steady_obs, evalVars, browser, closes, faults, remote,
                   stop_cause,
                   ioVars>>

NextFault ==
    \/ Launch \/ Startup \/ FaultFetchLive \/ FaultFetchFinished \/ LocalPhase
    \/ FaultCloudSync \/ Handler \/ Sleep \/ Cancel \/ Finally \/ Recover

SpecFault == InitFault /\ [][NextFault]_vars

\* Every await of the coroutine ends: it returns, raises or is cancelled.
SpecFaultFair == SpecFault /\ WF_vars(NextFault)

\* --------------------------------------------------------------- SpecPurge

\* The cycle with the remote live_scores table followed, by the fixture_ids
\* it holds, in place of the remote schedules and predictions: an upsert
\* that returns adds the ids it sent, a delete that returns removes the ids
\* it named.  The remote store starts down and empty.

\* The fixture_ids the remote store deleted from its live_scores.
Deleted(attempts, failing) ==
    UNION {attempts[i].ids :
           i \in {j \in 1..Len(attempts) :
                    IsDelete(attempts[j]) /\ CallName(attempts[j]) \notin failing}}

\* The remote live_scores after the attempted calls that did not raise.
RemoteLiveAfter(rem, attempts, failing) ==
    [rem EXCEPT !.live_scores =
        (@ \cup Upserted("live_scores", attempts, failing))
          \ Deleted(attempts, failing)]

InitPurge ==
    /\ schedules = [fid \in SchedIds |-> PropSchedRow(fid)]
    /\ predictions = [fid \in PredIds |-> PropPredRow(fid)]
    /\ live_scores = NoMatches
    /\ now = StartNow
    /\ pc = "fetch_live"
    /\ live_matches = NoMatches
    /\ finished_matches = NoMatches
    /\ stale_ids = {}
    /\ sched_upd = {}
    /\ pred_upd = {}
    /\ supabase = TRUE
    /\ remote_calls = <<>>
    /\ steady_obs = [fid \in PredIds |-> {}]
    /\ eval_call = <<>>
    /\ eval_ret = ""
    /\ browser = "open"
    /\ closes = 0
    /\ faults = {}
    /\ remote = NoRemote
    /\ remote_up = FALSE
    /\ stop_cause = "none"
    /\ mem = NoMem
    /\ io = NoIO
    /\ other = NoOther

\* The cloud sync of PHASE 4 with its faults, seen from the remote
\* live_scores.
PurgeCloudSync ==
    /\ pc = "sync"
    /\ \E failing \in SUBSET RemoteOps :
          LET attempts == SyncAttempts(failing)
          IN  /\ remote_up => failing = {}
              /\ failing \subseteq {CallName(attempts[i]) : i \in 1..Len(attempts)}
              /\ remote_calls' = attempts
              /\ faults' = faults \cup failing
              /\ remote' = RemoteLiveAfter(remote, attempts, failing)
    /\ pc' = "sleep"
    /\ UNCHANGED <<localTables, tickVars, now, supabase, steady_obs, evalVars,
                   browser, closes, remote_up, stop_cause, ioVars>>

NextPurge ==
    \/ FaultFetchLive \/ FaultFetchFinished \/ LocalPhase \/ PurgeCloudSync
    \/ Handler \/ Sleep \/ Recover

SpecPurge == InitPurge /\ [][NextPurge]_vars

\* Every await of the cycle ends.
SpecPurgeFair == SpecPurge /\ WF_vars(NextPurge)

\* ------------------------------------------------------------------ SpecIO

\* The cycle with every file access as a step of its own: a table is read
\* into memory, its rows are changed there, and it is written back if they
\* changed.  _write_csv may raise; nothing in
\* _propagate_status_updates or _purge_stale_live_scores catches that, so it
\* reaches the cycle's `except Exception`.  `open(path, 'w')` empties the
\* file before a row is written, so a write that raises leaves the file as
\* it was (the open raised) or without rows (a later call raised).  Another
\* task of the event loop runs while the coroutine stands at an await, and
\* nowhere else.
F3 == "f3"

\* The rows the other task adds for its fixture.
OtherRow(table) ==
    CASE table = "schedules" -> PropSchedRow(F3)
      [] table = "predictions" -> PropPredRow(F3)
      [] OTHER -> [home_score |-> ScoreStr(0), away_score |-> ScoreStr(0)]

\* The file of a table.
FileOf(table) ==
    CASE table = "schedules" -> schedules
      [] table = "predictions" -> predictions
      [] OTHER -> live_scores

\* One more access of a kind to a table.
Counted(kind, table) ==
    [io EXCEPT ![kind][table] = io[kind][table] + 1]

InitIO ==
    /\ schedules = [fid \in SchedIds |-> PropSchedRow(fid)]
    /\ predictions = [fid \in PredIds |-> PropPredRow(fid)]
    /\ live_scores = NoMatches
    /\ now = StartNow
    /\ pc = "fetch_live"
    /\ live_matches = NoMatches
    /\ finished_matches = NoMatches
    /\ stale_ids = {}
    /\ sched_upd = {}
    /\ pred_upd = {}
    /\ supabase = TRUE
    /\ remote_calls = <<>>
    /\ steady_obs = [fid \in PredIds |-> {}]
    /\ eval_call = <<>>
    /\ eval_ret = ""
    /\ browser = "open"
    /\ closes = 0
    /\ faults = {}
    /\ remote = NoRemote
    /\ remote_up = TRUE
    /\ stop_cause = "none"
    /\ mem = NoMem
    /\ io = NoIO
    /\ other = NoOther

\* PHASE 1, where a cycle starts.
IOFetchLive ==
    /\ pc = "fetch_live"
    /\ \E lm \in Lists(Fixtures, FaultLiveObs) : live_matches' = lm
    /\ io' = NoIO
    /\ pc' = "fetch_finished"
    /\ UNCHANGED <<localTables, now, finished_matches, stale_ids, sched_upd,
                   pred_upd, supabase, remote_calls, steady_obs, evalVars,
                   faultVars, mem, other>>

\* PHASE 2.
IOFetchFinished ==
    /\ pc = "fetch_finished"
    /\ \E fm \in Lists(PredIds, FaultFinObs) : finished_matches' = fm
    /\ pc' = "purge_read"
    /\ UNCHANGED <<localTables, now, live_matches, stale_ids, sched_upd,
                   pred_upd, supabase, remote_calls, steady_obs, evalVars,
                   faultVars, ioVars>>

\* _purge_stale_live_scores up to its `if stale_ids:` (lines 223-231).
PurgeRead ==
    /\ pc = "purge_read"
    /\ LET purged == PurgeStale(live_scores, Ids(live_matches))
       IN  /\ mem' = [table |-> "live_scores", read |-> live_scores,
                      rows |-> purged.rows, changed |-> purged.stale_ids # {}]
           /\ stale_ids' = purged.stale_ids
           /\ pc' = IF purged.stale_ids # {} THEN "purge_write" ELSE "save"
    /\ io' = Counted("read", "live_scores")
    /\ UNCHANGED <<localTables, now, live_matches, finished_matches, sched_upd,
                   pred_upd, supabase, remote_calls, steady_obs, evalVars,
                   faultVars, other>>

\* What a _write_csv that raises leaves of a file.
AfterFailedWrite(file) == {file, NoMatches}

\* `_write_csv(LIVE_SCORES_CSV, kept_rows, live_headers)` (line 233).
PurgeWrite ==
    /\ pc = "purge_write"
    /\ \/ /\ live_scores' = mem.rows
          /\ io' = Counted("write", "live_scores")
          /\ pc' = "save"
          /\ faults' = faults
       \/ /\ live_scores' \in AfterFailedWrite(live_scores)
          /\ io' = io
          /\ pc' = "handler"
          /\ faults' = faults \cup {"write_live_scores"}
    /\ mem' = NoMem
    /\ UNCHANGED <<schedules, predictions, now, tickVars, supabase,
                   remote_calls, steady_obs, evalVars, browser, closes, remote,
                   remote_up, stop_cause, other>>

\* `for m in live_matches: save_live_score_entry(m)` (lines 560-561), in the
\* branch `if live_matches or finished_matches`.
SaveLive ==
    /\ pc = "save"
    /\ live_scores' = SaveLiveScoreEntries(live_scores, live_matches)
    /\ mem' = NoMem
    /\ pc' = "sched_read"
    /\ UNCHANGED <<schedules, predictions, now, tickVars, supabase,
                   remote_calls, steady_obs, evalVars, faultVars, io, other>>

\* The schedules half up to `if sched_changed:` (lines 93-134).
SchedRead ==
    /\ pc = "sched_read"
    /\ LET sched == PropagateSched(schedules, live_matches, finished_matches, now)
       IN  /\ mem' = [table |-> "schedules", read |-> schedules,
                      rows |-> sched.rows, changed |-> sched.written]
           /\ pc' = IF sched.written THEN "sched_write" ELSE "pred_read"
    /\ sched_upd' = {}
    /\ io' = Counted("read", "schedules")
    /\ UNCHANGED <<localTables, now, live_matches, finished_matches, stale_ids,
                   pred_upd, supabase, remote_calls, steady_obs, evalVars,
                   faultVars, other>>

\* `_write_csv(SCHEDULES_CSV, sched_rows, sched_headers)` and sched_updates
\* (lines 135-136).
SchedWrite ==
    /\ pc = "sched_write"
    /\ \/ /\ schedules' = mem.rows
          /\ sched_upd' = PropagateSched(mem.read, live_matches,
                                         finished_matches, now).updates
          /\ io' = Counted("write", "schedules")
          /\ pc' = "pred_read"
          /\ faults' = faults
       \/ /\ schedules' \in AfterFailedWrite(schedules)
          /\ sched_upd' = sched_upd
          /\ io' = io
          /\ pc' = "handler"
          /\ faults' = faults \cup {"write_schedules"}
    /\ mem' = NoMem
    /\ UNCHANGED <<predictions, live_scores, now, live_matches,
                   finished_matches, stale_ids, pred_upd, supabase,
                   remote_calls, steady_obs, evalVars, browser, closes, remote,
                   remote_up, stop_cause, other>>

\* The predictions half up to `if pred_changed:` (lines 139-209).
PredRead ==
    /\ pc = "pred_read"
    /\ LET pred == PropagatePred(predictions, live_matches, finished_matches, now)
       IN  /\ mem' = IF pred.written
                     THEN [table |-> "predictions", read |-> predictions,
                           rows |-> pred.rows, changed |-> TRUE]
                     ELSE NoMem
           /\ pred_upd' = IF pred.written THEN {} ELSE pred.updates
           /\ pc' = IF pred.written THEN "pred_write" ELSE "sync"
    /\ io' = Counted("read", "predictions")
    /\ UNCHANGED <<localTables, now, live_matches, finished_matches, stale_ids,
                   sched_upd, supabase, remote_calls, steady_obs, evalVars,
                   faultVars, other>>

\* `_write_csv(PREDICTIONS_CSV, pred_rows, pred_headers)` and the return
\* (lines 210-212).
PredWrite ==
    /\ pc = "pred_write"
    /\ \/ /\ predictions' = mem.rows
          /\ pred_upd' = PropagatePred(mem.read, live_matches,
                                       finished_matches, now).updates
          /\ io' = Counted("write", "predictions")
          /\ pc' = "sync"
          /\ faults' = faults
       \/ /\ predictions' \in AfterFailedWrite(predictions)
          /\ pred_upd' = pred_upd
          /\ io' = io
          /\ pc' = "handler"
          /\ faults' = faults \cup {"write_predictions"}
    /\ mem' = NoMem
    /\ UNCHANGED <<schedules, live_scores, now, live_matches,
                   finished_matches, stale_ids, sched_upd, supabase,
                   remote_calls, steady_obs, evalVars, browser, closes, remote,
                   remote_up, stop_cause, other>>

\* The awaits of the cycle, its handler's among them.
IOSuspended == {"fetch_live", "fetch_finished", "sync", "handler", "sleep"}

\* The other task writing at any step of the coroutine.
OtherWriteAnywhere ==
    /\ \E table \in Tables \ other :
          /\ schedules' = IF table = "schedules"
                          THEN SaveLiveScoreEntries(schedules, F3 :> OtherRow(table))
                          ELSE schedules
          /\ predictions' = IF table = "predictions"
                            THEN SaveLiveScoreEntries(predictions, F3 :> OtherRow(table))
                            ELSE predictions
          /\ live_scores' = IF table = "live_scores"
                            THEN SaveLiveScoreEntries(live_scores, F3 :> OtherRow(table))
                            ELSE live_scores
          /\ other' = other \cup {table}
    /\ UNCHANGED <<now, pc, tickVars, supabase, remote_calls, steady_obs,
                   evalVars, faultVars, mem, io>>

\* Another task of the event loop adds the row of its fixture to a table,
\* as extract_matches_from_page does with batch_upsert(SCHEDULES_CSV, ...):
\* a read and a write of the file with no await between them, run while the
\* coroutine stands at one of its own awaits.
OtherWrite ==
    /\ pc \in IOSuspended
    /\ \E table \in Tables \ other :
          /\ schedules' = IF table = "schedules"
                          THEN SaveLiveScoreEntries(schedules, F3 :> OtherRow(table))
                          ELSE schedules
          /\ predictions' = IF table = "predictions"
                            THEN SaveLiveScoreEntries(predictions, F3 :> OtherRow(table))
                            ELSE predictions
          /\ live_scores' = IF table = "live_scores"
                            THEN SaveLiveScoreEntries(live_scores, F3 :> OtherRow(table))
                            ELSE live_scores
          /\ other' = other \cup {table}
    /\ UNCHANGED <<now, pc, tickVars, supabase, remote_calls, steady_obs,
                   evalVars, faultVars, mem, io>>

NextIO ==
    \/ IOFetchLive \/ IOFetchFinished \/ PurgeRead \/ PurgeWrite \/ SaveLive
    \/ SchedRead \/ SchedWrite \/ PredRead \/ PredWrite \/ CloudSync
    \/ Handler \/ Sleep \/ OtherWrite

SpecIO == InitIO /\ [][NextIO]_vars

\* ------------------------------------------------------------------ claims

\* The kickoff a row's date and match_time cells denote, in minutes since
\* 2026-02-07T15:00:00, whichever format the date cell is written in: every
\* row of the model kicks off at that instant.
KickoffOf(row) == IsoMinutes(DateIso, row.match_time)

\* The lifecycle order Scheduled < Live < terminal.
StatusRank(status) ==
    CASE status = "scheduled" -> 0
      [] status = "live" -> 1
      [] OTHER -> 2

\* C1: at the end of every cycle the fixture_ids of live_scores.csv are
\* exactly the fixture_ids the LIVE tab returned in that cycle, whatever the
\* two lists hold.
C1_SnapshotEqualsLive ==
    pc \in {"sync", "sleep"} => DOMAIN live_scores = Ids(live_matches)

\* A cycle that purged f1 and added f2.
C1_Witness ==
    /\ pc = "sleep"
    /\ stale_ids = {F1}
    /\ Ids(live_matches) = {F2}
    /\ DOMAIN live_scores = {F2}

\* C2: the status of every schedule row and of every prediction row only
\* moves forward in the order Scheduled, Live, terminal.
C2_StatusMonotonic ==
    [][/\ \A fid \in DOMAIN schedules :
            StatusRank(schedules'[fid].status) >= StatusRank(schedules[fid].status)
       /\ \A fid \in DOMAIN predictions :
            StatusRank(predictions'[fid].status) >= StatusRank(predictions[fid].status)
      ]_vars

\* C3: outcome_correct is computed on the cycle in which a prediction row
\* enters a terminal status, and while the later cycles bring the same
\* observation of the fixture or none, the row is not evaluated again: it
\* keeps every cell and is not among the rows reported as changed.
C3_OutcomeComputedOnce ==
    [][pc = "local" =>
        \A fid \in DOMAIN predictions :
          LET obs == ObsOf(fid, live_matches, finished_matches)
              before == predictions[fid]
              after == predictions'[fid]
              verdict == _compute_outcome_correct(after.prediction,
                                                  after.home_score, after.away_score)
          IN  /\ (~Terminal(before.status) /\ Terminal(after.status))
                   => after.outcome_correct =
                        (IF verdict # "" THEN verdict ELSE before.outcome_correct)
              /\ (steady_obs[fid] # {} /\ obs \in steady_obs[fid] \cup {NoObs})
                   => (after = before /\ fid \notin pred_upd')
      ]_vars

\* A row that got its verdict on a FINISHED entry and has just seen the same
\* entry again.
C3_Witness ==
    /\ pc = "sync"
    /\ steady_obs[F1] # {}
    /\ ObsOf(F1, live_matches, finished_matches) \in steady_obs[F1]
    /\ ObsOf(F1, live_matches, finished_matches) # NoObs
    /\ predictions[F1].outcome_correct = "True"
    /\ F1 \notin pred_upd

\* C4: applying _propagate_status_updates a second time to the same lists at
\* the same clock returns two empty lists and leaves both tables as the first
\* application left them.
C4_SecondPassEmpty ==
    pc = "local" =>
        LET s1 == PropagateSched(schedules, live_matches, finished_matches, now)
            p1 == PropagatePred(predictions, live_matches, finished_matches, now)
            s2 == PropagateSched(s1.rows, live_matches, finished_matches, now)
            p2 == PropagatePred(p1.rows, live_matches, finished_matches, now)
        IN  /\ s2.updates = {} /\ p2.updates = {}
            /\ s2.rows = s1.rows /\ p2.rows = p1.rows

\* C5: a fixture in both lists of a cycle takes the status and the scores of
\* its FINISHED entry in both tables.
C5_FinishedWins ==
    pc = "sync" =>
        \A fid \in Ids(live_matches) \cap Ids(finished_matches) :
          LET fm == finished_matches[fid]
          IN  /\ fid \in DOMAIN schedules =>
                   /\ schedules[fid].status = fm.status
                   /\ schedules[fid].home_score = fm.home_score
                   /\ schedules[fid].away_score = fm.away_score
              /\ fid \in DOMAIN predictions =>
                   /\ predictions[fid].status = fm.status
                   /\ predictions[fid].home_score = fm.home_score
                   /\ predictions[fid].away_score = fm.away_score

\* C6: a row that is live at the start of a cycle, whose fixture is in
\* neither list and whose kickoff is more than 150 minutes past, is finished
\* at the end of the cycle, its scores unchanged.
C6_FallbackFires ==
    [][pc = "local" =>
        \A fid \in Fixtures \ (Ids(live_matches) \cup Ids(finished_matches)) :
          /\ (/\ fid \in DOMAIN schedules
              /\ schedules[fid].status = "live"
              /\ now > KickoffOf(schedules[fid]) + FallbackMinutes)
               => /\ schedules'[fid].status = "finished"
                  /\ schedules'[fid].home_score = schedules[fid].home_score
                  /\ schedules'[fid].away_score = schedules[fid].away_score
          /\ (/\ fid \in DOMAIN predictions
              /\ predictions[fid].status = "live"
              /\ now > KickoffOf(predictions[fid]) + FallbackMinutes)
               => /\ predictions'[fid].status = "finished"
                  /\ predictions'[fid].home_score = predictions[fid].home_score
                  /\ predictions'[fid].away_score = predictions[fid].away_score
      ]_vars

\* C7: in a cycle in which a fixture is in neither list, the status of its
\* rows changes only if the row is live and the clock is strictly more than
\* 150 minutes past the kickoff.
C7_NoEarlyFallback ==
    [][pc = "local" =>
        \A fid \in Fixtures \ (Ids(live_matches) \cup Ids(finished_matches)) :
          /\ (fid \in DOMAIN schedules
              /\ schedules'[fid].status # schedules[fid].status)
               => /\ schedules[fid].status = "live"
                  /\ now > KickoffOf(schedules[fid]) + FallbackMinutes
          /\ (fid \in DOMAIN predictions
              /\ predictions'[fid].status # predictions[fid].status)
               => /\ predictions[fid].status = "live"
                  /\ now > KickoffOf(predictions[fid]) + FallbackMinutes
      ]_vars

\* Rows with an ISO date, live and unobserved at 150 minutes exactly, that
\* the cycle left live.
C7_Witness ==
    /\ pc = "sync"
    /\ now = KickoffOf(schedules[F1]) + FallbackMinutes
    /\ F1 \notin Ids(live_matches) \cup Ids(finished_matches)
    /\ schedules[F1].status = "live" /\ schedules[F1].date = DateIso
    /\ predictions[F1].status = "live" /\ predictions[F1].date = DateIso

\* C8: a FINISHED entry with status cancelled, for a fixture the LIVE tab does
\* not show and whose row is still scheduled, moves the row to cancelled in
\* that cycle, in both tables.
C8_ScheduledToCancelled ==
    [][pc = "local" =>
        \A fid \in Ids(finished_matches) \ Ids(live_matches) :
          finished_matches[fid].status = "cancelled" =>
            /\ (fid \in DOMAIN schedules /\ schedules[fid].status = "scheduled")
                 => schedules'[fid].status = "cancelled"
            /\ (fid \in DOMAIN predictions /\ predictions[fid].status = "scheduled")
                 => predictions'[fid].status = "cancelled"
      ]_vars

\* The first cycle, whose rows were all scheduled, cancelling f1.
C8_Witness ==
    /\ pc = "sync"
    /\ now = StartNow
    /\ F1 \in Ids(finished_matches) \ Ids(live_matches)
    /\ finished_matches[F1].status = "cancelled"
    /\ schedules[F1].status = "cancelled"
    /\ predictions[F1].status = "cancelled"

\* The upserts and deletes of live_scores among a cycle's remote calls.
LiveScoreCalls(op) ==
    {remote_calls[i].ids : i \in {j \in 1..Len(remote_calls) :
        remote_calls[j].table = "live_scores" /\ remote_calls[j].op = op}}

\* C9: the purge returns the persisted ids that are not live and keeps the
\* rows of those that are; with a remote store, the cycle sends it one delete
\* of exactly the purged ids when there are any, and one upsert of exactly
\* the live ids when there are any.
C9_StrictPurgeMirrored ==
    [][/\ pc = "local" =>
            LET P == DOMAIN live_scores
                L == Ids(live_matches)
                purged == PurgeStale(live_scores, L)
            IN  /\ stale_ids' = P \ L
                /\ purged.stale_ids = P \ L
                /\ DOMAIN purged.rows = P \cap L
                /\ \A fid \in P \cap L : purged.rows[fid] = live_scores[fid]
       /\ (pc' = "sleep" /\ supabase') =>
            /\ LiveScoreCalls("delete")' = (IF stale_ids' # {} THEN {stale_ids'} ELSE {})
            /\ LiveScoreCalls("upsert")' =
                 (IF live_matches' # NoMatches THEN {Ids(live_matches')} ELSE {})
      ]_vars

\* The purge of f1 in a cycle that found f2 live, both sent to the remote.
C9_Witness ==
    /\ pc = "sleep"
    /\ supabase
    /\ stale_ids = {F1}
    /\ Ids(live_matches) = {F2}
    /\ LiveScoreCalls("delete") = {{F1}}
    /\ LiveScoreCalls("upsert") = {{F2}}

\* The comparisons the keywords stand for, for the keywords a text contains.
BoolStr(b) == IF b THEN "True" ELSE "False"
RefVerdicts(text, h, a) ==
    LET p == Lower(text)
    IN  (IF Contains(p, KwHomeWin) THEN {BoolStr(h > a)} ELSE {})
        \cup (IF Contains(p, KwAwayWin) THEN {BoolStr(a > h)} ELSE {})
        \cup (IF Contains(p, KwDraw) THEN {BoolStr(h = a)} ELSE {})
        \cup (IF Contains(p, KwOver25) THEN {BoolStr(h + a >= 3)} ELSE {})
        \cup (IF Contains(p, KwUnder25) THEN {BoolStr(h + a <= 2)} ELSE {})
        \cup (IF Contains(p, KwBtts) \/ Contains(p, KwBothTeams)
              THEN {BoolStr(h > 0 /\ a > 0)} ELSE {})
\* The number of keywords of the list a text contains.
KeywordCount(text) ==
    LET p == Lower(text)
    IN  Cardinality({k \in {KwHomeWin, KwAwayWin, KwDraw, KwOver25, KwUnder25} :
                       Contains(p, k)})
        + (IF Contains(p, KwBtts) \/ Contains(p, KwBothTeams) THEN 1 ELSE 0)

\* C10: on integer scores the evaluator returns the comparison of the one
\* keyword the text contains, and unset, never False, for a text with none;
\* the four examples come out true, false, false and unset.
C10_EvaluatorAgrees ==
    pc = "evaluated" =>
        LET text == eval_call[1]
            hs == eval_call[2]
            as == eval_call[3]
        IN  /\ (IsInt(hs) /\ IsInt(as) /\ KeywordCount(text) = 0) => eval_ret = ""
            /\ (IsInt(hs) /\ IsInt(as) /\ KeywordCount(text) = 1)
                 => RefVerdicts(text, IntOf(hs), IntOf(as)) = {eval_ret}
            /\ eval_call = <<TextOver25Goals, "3", "1">> => eval_ret = "True"
            /\ eval_call = <<TextOver25Goals, "1", "0">> => eval_ret = "False"
            /\ eval_call = <<TextHomeWin, "1", "1">> => eval_ret = "False"
            /\ eval_call = <<TextCorrectScore, "2", "1">> => eval_ret = ""

\* The evaluator applied to ("Over 2.5 Goals", 3, 1).
C10_Witness ==
    /\ pc = "evaluated"
    /\ eval_call = <<TextOver25Goals, "3", "1">>
    /\ eval_ret = "True"

\* The verdicts of the evaluator.
Verdicts == {"True", "False"}

\* C11: a prediction row whose outcome_correct holds a verdict holds one
\* after every call, and a row that a call moves to a terminal status while
\* the evaluator has no verdict on its new scores keeps the cell it had.
C11_VerdictNeverUnset ==
    [][pc = "called" =>
        \A k \in DOMAIN predictions :
          LET before == predictions[k]
              after == predictions'[k]
              oc == _compute_outcome_correct(after.prediction, after.home_score,
                                             after.away_score)
          IN  /\ before.outcome_correct \in Verdicts
                   => after.outcome_correct \in Verdicts
              /\ (Terminal(after.status) /\ after.status # before.status
                  /\ oc = "")
                   => after.outcome_correct = before.outcome_correct
      ]_vars

\* A row holding True that a call has just moved to another terminal status
\* with scores the evaluator cannot read.
C11_Witness ==
    /\ pc = "applied"
    /\ \E k \in DOMAIN predictions :
         /\ k \in pred_upd
         /\ Terminal(predictions[k].status)
         /\ ~IsInt(predictions[k].home_score)
         /\ predictions[k].outcome_correct = "True"

\* The cells a call may write.
OwnedFields == {"status", "home_score", "away_score", "actual_score",
                "stage_detail", "outcome_correct"}

\* Two versions of a row that differ in the owned cells at most.
SameOutsideOwned(before, after) ==
    /\ DOMAIN after = DOMAIN before
    /\ \A f \in DOMAIN before \ OwnedFields : after[f] = before[f]

\* C17: a call leaves each file with the rows it had, in their places and
\* with their fixture_ids, whatever the lists name, and changes owned cells
\* only.
C17_RowsKept ==
    [][pc = "called" =>
        /\ DOMAIN schedules' = DOMAIN schedules
        /\ \A k \in DOMAIN schedules : SameOutsideOwned(schedules[k], schedules'[k])
        /\ DOMAIN predictions' = DOMAIN predictions
        /\ \A k \in DOMAIN predictions :
             SameOutsideOwned(predictions[k], predictions'[k])
      ]_vars

\* A call that changed rows of both files while its lists named f2, which has
\* no prediction row and, in the file holding f1 twice, no schedule row.
C17_Witness ==
    /\ pc = "applied"
    /\ F2 \in Ids(live_matches)
    /\ schedules[1].fixture_id = F1 /\ schedules[2].fixture_id = F1
    /\ schedules[1].status = "live" /\ schedules[2].status = "live"
    /\ Len(predictions) = 1
    /\ pred_upd = {1}

\* What a row keeps when the entry that changed it shows no value.
KeepsAbsent(before, after, entry, field) ==
    entry[field] = "" => after[field] = before[field]

\* The entry applied to a fixture named in one list only.
OneEntry(fid) ==
    IF fid \in Ids(live_matches') \ Ids(finished_matches')
    THEN {live_matches'[fid]}
    ELSE IF fid \in Ids(finished_matches') \ Ids(live_matches')
    THEN {finished_matches'[fid]}
    ELSE {}

\* C18: a row changed by an entry keeps the value of every cell for which
\* the entry shows none: the scores for a LIVE entry, the scores and the
\* stage detail for a FINISHED entry.
C18_AbsentFieldsKept ==
    [][pc = "called" =>
        /\ \A k \in DOMAIN schedules :
             \A entry \in OneEntry(schedules[k].fixture_id) :
               schedules'[k] # schedules[k] =>
                 \A f \in DOMAIN entry \ {"status"} :
                   KeepsAbsent(schedules[k], schedules'[k], entry, f)
        /\ \A k \in DOMAIN predictions :
             \A entry \in OneEntry(predictions[k].fixture_id) :
               predictions'[k] # predictions[k] =>
                 \A f \in DOMAIN entry \ {"status"} :
                   KeepsAbsent(predictions[k], predictions'[k], entry, f)
      ]_vars

\* C19: every row a call returns in sched_updates or in pred_updates differs
\* from the row before the call.
C19_DeltaSound ==
    [][pc = "called" =>
        /\ \A k \in sched_upd' : schedules'[k] # schedules[k]
        /\ \A k \in pred_upd' : predictions'[k] # predictions[k]
      ]_vars

\* C12: in a cycle with a remote store, every mirror call that has data to
\* send is attempted whichever of the others raise, and the cloud sync
\* leaves the three local tables as the cycle wrote them.
C12_MirrorsIndependent ==
    [][(pc = "sync" /\ pc' = "sleep" /\ supabase) =>
        /\ \A i \in 1..Len(SyncAttempts({})) :
             \E j \in 1..Len(remote_calls') : remote_calls'[j] = SyncAttempts({})[i]
        /\ localTables' = localTables
      ]_vars

\* The faults of the two fetches.
FetchFaults == {"fetch_live", "click_finished", "fetch_finished"}

\* C13: a cycle in which a fetch failed ends with what the other fetch
\* returned processed, the failed one counting as an empty list:
\* live_scores.csv holds the ids of the live list, the rows of the live
\* fixtures are live, and those of the fixtures of the finished list alone
\* have its status.
C13_FetchFaultIsolated ==
    (pc = "sleep" /\ faults \cap FetchFaults # {}) =>
        /\ DOMAIN live_scores = Ids(live_matches)
        /\ \A fid \in Ids(live_matches) \cap DOMAIN schedules :
             schedules[fid].status = "live"
        /\ \A fid \in Ids(live_matches) \cap DOMAIN predictions :
             predictions[fid].status = "live"
        /\ \A fid \in (Ids(finished_matches) \ Ids(live_matches))
                         \cap DOMAIN schedules :
             schedules[fid].status = finished_matches[fid].status

\* C14: an exception raised in a cycle leads to the handler with nothing
\* more written; the handler leads to the sleep whether or not its own
\* navigation raises; the fatal exit is reached from before the loop only;
\* and after the handler the next cycle starts, unless the task is
\* cancelled.
C14_LoopSurvivesFaults ==
    /\ [][/\ (pc \in {"fetch_live", "fetch_finished"}
              /\ (faults' \ faults) \cap {"fetch_live", "fetch_finished"} # {})
               => (pc' = "handler" /\ localTables' = localTables)
          /\ pc = "handler"
               => /\ pc' \in {"sleep", "cancelled"}
                  /\ localTables' = localTables
                  /\ remote_calls' = remote_calls
                  /\ remote' = remote
                  /\ tickVars' = tickVars
          /\ pc' = "fatal" => pc \in {"launch", "startup"}
         ]_vars
    /\ (pc = "handler") ~> (pc = "fetch_live" \/ stop_cause = "cancel")

\* A cycle abandoned on the FINISHED fetch, its live list unprocessed, whose
\* handler's navigation raised as well, and which reached the sleep.
C14_Witness ==
    /\ pc = "sleep"
    /\ faults = {"fetch_finished", "renavigate"}
    /\ live_matches # NoMatches
    /\ live_scores = NoMatches
    /\ stop_cause = "none"

\* Where the coroutine stands once the loop is left.
Stopped == {"cancelled", "fatal", "returned"}

\* C15: once the task is cancelled, or the loop left on a fatal error, no
\* cycle starts again, the coroutine returns, and a browser that was
\* launched has been closed by then, once.
C15_CancelReleases ==
    /\ [][(pc \in Stopped) => (pc' \in Stopped)]_vars
    /\ [](stop_cause # "none" => pc \in Stopped)
    /\ [](closes <= 1)
    /\ [](pc = "returned" =>
            /\ browser # "open"
            /\ closes = (IF browser = "closed" THEN 1 ELSE 0))
    /\ (stop_cause # "none") ~> (pc = "returned")

\* The task cancelled during a mirror write, returned with the browser
\* closed once.
C15_Witness ==
    /\ pc = "returned"
    /\ stop_cause = "cancel"
    /\ remote_calls # <<>>
    /\ browser = "closed"
    /\ closes = 1

\* C16: without a remote store a cycle makes no remote call and its cloud
\* sync goes on to the sleep with no fault; and with or without one, the
\* local tables are what the purge, the save and the propagation make of
\* the cycle's lists, and the cloud sync leaves them so.
C16_LocalOnly ==
    [][/\ ~supabase =>
            /\ remote_calls' = <<>>
            /\ remote' = remote
            /\ pc = "sync" => (pc' = "sleep" /\ faults' = faults)
       /\ pc = "sync" => localTables' = localTables
       /\ (pc = "local" /\ pc' = "sync") =>
            /\ schedules' = PropagateSched(schedules, live_matches,
                                           finished_matches, now).rows
            /\ predictions' = PropagatePred(predictions, live_matches,
                                            finished_matches, now).rows
            /\ DOMAIN live_scores' = Ids(live_matches)
      ]_vars

\* A cycle without a remote store that purged a row and changed rows of both
\* tables, asleep with no call made.
C16_Witness ==
    /\ pc = "sleep"
    /\ ~supabase
    /\ stale_ids # {}
    /\ sched_upd # {}
    /\ pred_upd # {}
    /\ remote_calls = <<>>
    /\ faults = {}

\* The cells of a row the streamer owns and mirrors.
MirroredFields == {"status", "home_score", "away_score", "outcome_correct"}

\* A remote table that agrees with the local one in these cells.
InSync(remote_rows, local_rows) ==
    \A fid \in DOMAIN local_rows :
      /\ fid \in DOMAIN remote_rows
      /\ \A f \in MirroredFields \cap DOMAIN local_rows[fid] :
           remote_rows[fid][f] = local_rows[fid][f]

RemoteConsistent ==
    /\ InSync(remote.schedules, schedules)
    /\ InSync(remote.predictions, predictions)

\* C20: with a remote store that comes up for good, and the task never
\* stopped, from some cycle on both remote tables agree with the local ones
\* at the end of every cycle.
C20_RemoteCatchesUp ==
    (supabase /\ <>remote_up /\ [](stop_cause = "none"))
        => <>[](pc = "sleep" => RemoteConsistent)

\* The steps a step of a cycle is followed by when nothing raises.
StepsAfter(step) ==
    CASE step = "fetch_live" -> {"fetch_finished"}
      [] step = "fetch_finished" -> {"purge_read"}
      [] step = "purge_read" -> {"purge_write", "save"}
      [] step = "purge_write" -> {"save"}
      [] step = "save" -> {"sched_read"}
      [] step = "sched_read" -> {"sched_write", "pred_read"}
      [] step = "sched_write" -> {"pred_read"}
      [] step = "pred_read" -> {"pred_write", "sync"}
      [] step = "pred_write" -> {"sync"}
      [] step = "sync" -> {"sleep"}
      [] step = "sleep" -> {"fetch_live"}
      [] OTHER -> {}

\* C21: a cycle in which nothing raises runs the live fetch, the finished
\* fetch, the purge, the save and the propagation with its two commits, the
\* remote calls and the sleep, in this order; the remote store is called by
\* the step after the commits only, which writes no local table; and a cycle
\* starts from the sleep of the one before only.
C21_StepOrder ==
    /\ [][(pc' # pc /\ "handler" \notin {pc, pc'}) => pc' \in StepsAfter(pc)]_vars
    /\ [][remote_calls' # remote_calls /\ remote_calls' # <<>>
            => pc = "sync" /\ localTables' = localTables]_vars
    /\ [](remote_calls # <<>> => pc = "sleep")

\* A cycle that took every step: it purged, wrote both tables, and called
\* the remote store for the live scores, the purge and both deltas.
C21_Witness ==
    /\ pc = "sleep"
    /\ faults = {}
    /\ \A t \in Tables : io.write[t] > 0
    /\ {CallName(remote_calls[i]) : i \in 1..Len(remote_calls)} = RemoteOps

\* The fallback is due for a row: its status is live and the clock is more
\* than 150 minutes past its kickoff.
FallbackDue(row) ==
    row.status = "live" /\ now > KickoffOf(row) + FallbackMinutes

\* The rows of a table no list of the cycle names and no fallback is due
\* for.
Unconcerned(table) ==
    {k \in DOMAIN FileOf(table) :
        /\ FileOf(table)[k].fixture_id \notin Ids(live_matches) \cup Ids(finished_matches)
        /\ ~FallbackDue(FileOf(table)[k])}

\* The tables _propagate_status_updates writes.
Propagated == {"schedules", "predictions"}

\* C22: a write of schedules.csv or predictions.csv leaves every row that
\* no list names and no fallback is due for as it was, cell for cell, and
\* changes some row: a table none of whose rows changed is not written.
C22_NoOpFrame ==
    [][\A t \in Propagated :
          io'.write[t] > io.write[t] =>
             /\ \A k \in Unconcerned(t) :
                   k \in DOMAIN FileOf(t)' /\ FileOf(t)'[k] = FileOf(t)[k]
             /\ FileOf(t)' # FileOf(t)
      ]_vars

\* C23: by the time a cycle reaches its remote calls it has read
\* schedules.csv and predictions.csv once each and written each once at
\* most, with observations or without, and each of its writes changed the
\* file it wrote.
C23_BoundedTableIO ==
    /\ [](pc = "sync" =>
            \A t \in Propagated : io.read[t] = 1 /\ io.write[t] <= 1)
    /\ [][\A t \in Propagated :
            io'.write[t] > io.write[t] => FileOf(t)' # FileOf(t)]_vars

\* C24: a cycle in which the write of one of the two tables raised has
\* committed this cycle's changes of the other one by its sleep: the other
\* table's rows are what the propagation of the cycle's lists makes of them.
C24_WriteFaultIsolated ==
    pc = "sleep" =>
      /\ "write_schedules" \in faults =>
            PropagatePred(predictions, live_matches, finished_matches, now).rows
              = predictions
      /\ "write_predictions" \in faults =>
            PropagateSched(schedules, live_matches, finished_matches, now).rows
              = schedules

\* C25: whenever the coroutine writes a table, the file it replaces is still
\* the one it read: nothing was written to it in between, and the row another
\* task of the event loop had added before is in the written table too.
C25_ReadModifyWriteAtomic ==
    [][\A t \in Tables :
          io'.write[t] > io.write[t] =>
             /\ mem.table = t
             /\ FileOf(t) = mem.read
             /\ (t \in other /\ F3 \in DOMAIN FileOf(t) /\ t \in Propagated) =>
                   (F3 \in DOMAIN FileOf(t)' /\ FileOf(t)'[F3] = FileOf(t)[F3])
      ]_vars

\* The coroutine has written schedules.csv in a cycle during which the other
\* task added its row, and the row is there.
C25_Witness ==
    /\ pc = "pred_read"
    /\ io.write["schedules"] > 0
    /\ "schedules" \in other
    /\ F3 \in DOMAIN schedules
    /\ \E fid \in SchedIds : schedules[fid].status # "scheduled"

\* C26: every row of schedules.csv and of predictions.csv a call changed,
\* the rows the time fallback finished among them, is in the list the call
\* returns for its table.
C26_DeltaComplete ==
    [][pc = "called" =>
        /\ \A k \in DOMAIN schedules :
              schedules'[k] # schedules[k] => k \in sched_upd'
        /\ \A k \in DOMAIN predictions :
              predictions'[k] # predictions[k] => k \in pred_upd'
      ]_vars

\* The remote live_scores holds no fixture_id that live_scores.csv does not.
NoneLingers == remote.live_scores \subseteq DOMAIN live_scores

\* C27: with a remote store that takes every call from some cycle on, and
\* every cycle reaching its remote calls, there is a cycle from which on
\* each cycle ends with no purged fixture_id left in the remote live_scores.
C27_RemotePurgeCatchesUp ==
    (<>remote_up /\ [](pc # "handler"))
        => <>[](pc = "sleep" => NoneLingers)

\* A row the FINISHED list alone names, with the status the row has already.
SameTerminal(row) ==
    /\ row.fixture_id \in Ids(finished_matches) \ Ids(live_matches)
    /\ finished_matches[row.fixture_id].status = row.status

\* C28: a call leaves a row alone, in every cell, when the FINISHED list
\* names its fixture with the status the row already has, whatever scores
\* the entry shows.
C28_SameTerminalKept ==
    [][pc = "called" =>
        /\ \A k \in DOMAIN schedules :
              SameTerminal(schedules[k]) => schedules'[k] = schedules[k]
        /\ \A k \in DOMAIN predictions :
              SameTerminal(predictions[k]) => predictions'[k] = predictions[k]
      ]_vars

\* A call has met a prediction row the fallback had finished as an away
\* win, its home-win prediction judged wrong, with a FINISHED entry of the
\* same status that shows a home win.
C28_Witness ==
    /\ pc = "applied"
    /\ \E k \in DOMAIN predictions :
          /\ SameTerminal(predictions[k])
          /\ predictions[k].status = "finished"
          /\ predictions[k].home_score = ScoreStr(0)
          /\ predictions[k].away_score = ScoreStr(MaxScore)
          /\ predictions[k].outcome_correct = "False"
          /\ finished_matches[predictions[k].fixture_id].home_score = ScoreStr(MaxScore)
          /\ finished_matches[predictions[k].fixture_id].away_score = ScoreStr(0)

\* The fixtures with a row in both tables.
InBoth == DOMAIN schedules \cap DOMAIN predictions

\* The two rows of every such fixture have the same status.
StatusAgree == \A fid \in InBoth : schedules[fid].status = predictions[fid].status

\* The two rows of every such fixture have the same kickoff cells.
KickoffAgree ==
    \A fid \in InBoth :
        /\ schedules[fid].date = predictions[fid].date
        /\ schedules[fid].match_time = predictions[fid].match_time

\* C29: the purge, save and propagation of a cycle, run on tables whose rows
\* agree on status and kickoff fixture by fixture, leave them agreeing on
\* status, whatever the two lists hold.
C29_StatusAgreement ==
    [][(pc = "local" /\ StatusAgree /\ KickoffAgree) => StatusAgree']_vars

\* A cycle whose lists did not name f1 has finished both of its rows by the
\* fallback.
C29_Witness ==
    /\ pc = "sync"
    /\ F1 \notin Ids(live_matches) \cup Ids(finished_matches)
    /\ F1 \in pred_upd
    /\ KickoffAgree
    /\ schedules[F1].status = "finished"
    /\ predictions[F1].status = "finished"

\* The place of the first keyword of the evaluator's order that a text
\* contains: home win, away win, draw, over 2.5, under 2.5, btts.
KeywordsInOrder ==
    <<{KwHomeWin}, {KwAwayWin}, {KwDraw}, {KwOver25}, {KwUnder25},
      {KwBtts, KwBothTeams}>>
Places(text) ==
    {i \in DOMAIN KeywordsInOrder :
        \E kw \in KeywordsInOrder[i] : Contains(Lower(text), kw)}
FirstPlace(text) == CHOOSE i \in Places(text) : \A j \in Places(text) : i <= j

\* What the keyword at a place says of a score.
VerdictAt(place, h, a) ==
    CASE place = 1 -> BoolStr(h > a)
      [] place = 2 -> BoolStr(a > h)
      [] place = 3 -> BoolStr(h = a)
      [] place = 4 -> BoolStr(h + a >= 3)
      [] place = 5 -> BoolStr(h + a <= 2)
      [] OTHER -> BoolStr(h >= 1 /\ a >= 1)

\* C30: for a text with two keywords or more the evaluator returns what the
\* first of them in its order says and nothing of the others ('Home win or
\* draw' on 1-1 is False); with a score that is no integer it returns unset
\* whatever the text.
C30_KeywordPrecedence ==
    pc = "evaluated" =>
        LET text == eval_call[1]
            hs == eval_call[2]
            as == eval_call[3]
        IN  /\ ~(IsInt(hs) /\ IsInt(as)) => eval_ret = ""
            /\ (IsInt(hs) /\ IsInt(as) /\ Cardinality(Places(text)) >= 2)
                 => eval_ret = VerdictAt(FirstPlace(text), IntOf(hs), IntOf(as))
            /\ eval_call = <<TextHomeWinOrDraw, "1", "1">> => eval_ret = "False"

\* The evaluator applied to ('Home win or draw', 1, 1).
C30_Witness ==
    /\ pc = "evaluated"
    /\ eval_call = <<TextHomeWinOrDraw, "1", "1">>
    /\ eval_ret = "False"

====
